---- MODULE Spec2Model ----
(***************************************************************************)
(* A model of the OData demo service of src/main.py: the in-memory record  *)
(* store (customers_data, orders_data), the query-option interpreter       *)
(* (ODataQueryParser.parse_filter / parse_orderby / parse_select), and the *)
(* request handlers that combine them.                                     *)
(*                                                                         *)
(* Text is modelled as a sequence of one-character strings, so that the    *)
(* substring tests, splits, strips and the regular expression of the       *)
(* source are computed rather than assumed.  An Optional[...] query        *)
(* parameter is None (the empty tuple) or Some(x) (a one-element tuple).   *)
(***************************************************************************)
EXTENDS Integers, Sequences, FiniteSets, TLC

VARIABLES
    customers_data,  \* the Customers collection
    orders_data,     \* the Orders collection
    req,             \* the request being answered (one request at a time)
    resp,            \* its response
    slots,           \* per client: the request in flight and its response
    writes           \* create/replace/delete requests sent so far

vars == <<customers_data, orders_data, req, resp, slots, writes>>

(***************************************************************************)
(* Optional values                                                         *)
(***************************************************************************)
None == <<>>

Some(x) == <<x>>

\* Python truthiness of an Optional[str]: None and "" are falsy.
TruthyText(opt) == opt # None /\ opt[1] # <<>>

\* Python truthiness of an Optional[int]: None and 0 are falsy.
TruthyInt(opt) == opt # None /\ opt[1] # 0

(***************************************************************************)
(* Characters                                                              *)
(***************************************************************************)
UpperChars == <<"A","B","C","D","E","F","G","H","I","J","K","L","M",
                "N","O","P","Q","R","S","T","U","V","W","X","Y","Z">>

LowerChars == <<"a","b","c","d","e","f","g","h","i","j","k","l","m",
                "n","o","p","q","r","s","t","u","v","w","x","y","z">>

DigitChars == <<"0","1","2","3","4","5","6","7","8","9">>

\* The printable ASCII characters in code-point order (the grave accent, which
\* no text of the model uses, is left out; only the relative order is used).
Ascii == <<" ","!","\"","#","$","%","&","'","(",")","*","+",",","-",".","/">>
         \o DigitChars
         \o <<":",";","<","=",">","?","@">>
         \o UpperChars
         \o <<"[","\\","]","^","_">>
         \o LowerChars
         \o <<"{","|","}","~">>

Range(s) == {s[i] : i \in DOMAIN s}

\* Code point of every printable ASCII character (relative to the space).
OrdOf == [c \in Range(Ascii) |-> CHOOSE i \in DOMAIN Ascii : Ascii[i] = c]

Ord(c) == OrdOf[c]

\* str.lower() on every upper-case letter.
LowerOf == [c \in Range(UpperChars) |->
               LowerChars[CHOOSE i \in DOMAIN UpperChars : UpperChars[i] = c]]

\* str.upper() on every lower-case letter.
UpperOf == [c \in Range(LowerChars) |->
               UpperChars[CHOOSE i \in DOMAIN LowerChars : LowerChars[i] = c]]

\* str.lower() on one character.
LowerChar(c) == IF c \in DOMAIN LowerOf THEN LowerOf[c] ELSE c

\* str.upper() on one character.
UpperChar(c) == IF c \in DOMAIN UpperOf THEN UpperOf[c] ELSE c

\* Characters matched by \s, and stripped by str.strip() / split by str.split().
Whitespace == {" ", "\t", "\n", "\r", "\f"}

\* Characters matched by \w.
WordChars == Range(UpperChars) \cup Range(LowerChars) \cup Range(DigitChars) \cup {"_"}

\* The character set stripped from the literal of an eq filter.
QuoteChars == {"'", "\""}

(***************************************************************************)
(* Text operations                                                         *)
(***************************************************************************)
Lower(s) == [i \in DOMAIN s |-> LowerChar(s[i])]

Upper(s) == [i \in DOMAIN s |-> UpperChar(s[i])]

\* sub occurs in s at position i.
OccursAt(sub, s, i) ==
    /\ i >= 1
    /\ i + Len(sub) - 1 <= Len(s)
    /\ \A k \in 1..Len(sub) : s[i + k - 1] = sub[k]

\* str.find from position i, 1-based; 0 when sub does not occur.
FindFrom(sub, s, i) ==
    LET hits == {j \in i..(Len(s) - Len(sub) + 1) : OccursAt(sub, s, j)}
    IN  IF hits = {} THEN 0 ELSE CHOOSE j \in hits : \A h \in hits : j <= h

\* Python's `sub in s`.
Contains(sub, s) == FindFrom(sub, s, 1) # 0

RECURSIVE Split(_, _)
\* str.split(sep) for a non-empty separator.
Split(s, sep) ==
    LET j == FindFrom(sep, s, 1)
    IN  IF j = 0 THEN <<s>>
        ELSE <<SubSeq(s, 1, j - 1)>> \o Split(SubSeq(s, j + Len(sep), Len(s)), sep)

RECURSIVE LStrip(_, _)
LStrip(s, cs) ==
    IF s # <<>> /\ s[1] \in cs THEN LStrip(Tail(s), cs) ELSE s

RECURSIVE RStrip(_, _)
RStrip(s, cs) ==
    IF s # <<>> /\ s[Len(s)] \in cs THEN RStrip(SubSeq(s, 1, Len(s) - 1), cs) ELSE s

\* str.strip(chars): removes every leading and trailing character of cs.
Strip(s, cs) == RStrip(LStrip(s, cs), cs)

RECURSIVE SplitWs(_)
\* str.split() with no argument: splits on runs of whitespace, no empty parts.
SplitWs(s) ==
    LET t == LStrip(s, Whitespace)
        ends == {j \in 1..Len(t) : t[j] \in Whitespace}
        e == IF ends = {} THEN Len(t) + 1 ELSE CHOOSE j \in ends : \A h \in ends : j <= h
    IN  IF t = <<>> THEN <<>>
        ELSE <<SubSeq(t, 1, e - 1)>> \o SplitWs(SubSeq(t, e, Len(t)))

\* First position >= i of s whose character is not in cs (Len(s)+1 if none).
SkipWhile(s, i, cs) ==
    LET stops == {j \in i..Len(s) : s[j] \notin cs}
    IN  IF stops = {} THEN Len(s) + 1 ELSE CHOOSE j \in stops : \A h \in stops : j <= h

ContainsOpen == <<"c","o","n","t","a","i","n","s","(">>

\* The match of  contains\((\w+),\s*'([^']+)'\)  anchored at position i:
\* <<field, value>> when the pattern matches there, <<>> otherwise.
ContainsMatchAt(s, i) ==
    LET f0 == i + Len(ContainsOpen)
        f1 == SkipWhile(s, f0, WordChars)
        q0 == SkipWhile(s, f1 + 1, Whitespace)
        q1 == SkipWhile(s, q0 + 1, Range(s) \ {"'"})
    IN  IF /\ OccursAt(ContainsOpen, s, i)
           /\ f1 > f0
           /\ f1 <= Len(s) /\ s[f1] = ","
           /\ q0 <= Len(s) /\ s[q0] = "'"
           /\ q1 > q0 + 1
           /\ q1 <= Len(s) /\ s[q1] = "'"
           /\ q1 + 1 <= Len(s) /\ s[q1 + 1] = ")"
        THEN <<SubSeq(s, f0, f1 - 1), SubSeq(s, q0 + 1, q1 - 1)>>
        ELSE <<>>

\* re.search(r"contains\((\w+),\s*'([^']+)'\)", s): the groups of the leftmost
\* match, <<>> when there is none.
ContainsSearch(s) ==
    LET hits == {i \in 1..Len(s) : ContainsMatchAt(s, i) # <<>>}
    IN  IF hits = {} THEN <<>>
        ELSE ContainsMatchAt(s, CHOOSE i \in hits : \A h \in hits : i <= h)

RECURSIVE NatToStr(_)
NatToStr(n) ==
    IF n < 10 THEN <<DigitChars[n + 1]>>
    ELSE NatToStr(n \div 10) \o <<DigitChars[(n % 10) + 1]>>

\* str(n) for an int.
IntToStr(n) == IF n < 0 THEN <<"-">> \o NatToStr(-n) ELSE NatToStr(n)

\* Zero-padded decimal of width w, as datetime's str() prints its parts.
Pad(n, w) ==
    LET d == NatToStr(n)
    IN  [i \in 1..(w - Len(d)) |-> "0"] \o d

(***************************************************************************)
(* Data model                                                              *)
(*                                                                         *)
(* A Customer or an Order is a record with the fields of its class.  An    *)
(* int is an integer; a str is a text; the CustomerStatus enum is the text *)
(* of its value; a datetime (always midnight here) is <<year, month, day>>;*)
(* a float (always whole here) is the integer it equals; List[str] is a    *)
(* sequence of texts.                                                      *)
(***************************************************************************)
\* customers_data as seeded at import time (src/main.py:45-90).
SeedCustomers == <<
    [CustomerID |-> 1,
     CustomerName |-> <<"T","e","c","h"," ","S","o","l","u","t","i","o","n","s"," ","L","L","C">>,
     Email |-> <<"c","o","n","t","a","c","t","@","t","e","c","h","s","o","l","u","t","i","o","n","s",".","c","o","m">>,
     Phone |-> <<"+","1","-","5","5","5","-","0","1","2","3">>,
     City |-> <<"N","e","w"," ","Y","o","r","k">>,
     Country |-> <<"U","S","A">>,
     Status |-> <<"A","c","t","i","v","e">>,
     CreatedDate |-> <<2023, 1, 15>>,
     CreditLimit |-> 50000],
    [CustomerID |-> 2,
     CustomerName |-> <<"G","l","o","b","a","l"," ","T","r","a","d","i","n","g"," ","C","o">>,
     Email |-> <<"i","n","f","o","@","g","l","o","b","a","l","t","r","a","d","i","n","g",".","c","o","m">>,
     Phone |-> <<"+","1","-","5","5","5","-","0","4","5","6">>,
     City |-> <<"L","o","s"," ","A","n","g","e","l","e","s">>,
     Country |-> <<"U","S","A">>,
     Status |-> <<"A","c","t","i","v","e">>,
     CreatedDate |-> <<2023, 3, 22>>,
     CreditLimit |-> 75000],
    [CustomerID |-> 3,
     CustomerName |-> <<"E","u","r","o","p","e","a","n"," ","S","y","s","t","e","m","s">>,
     Email |-> <<"s","a","l","e","s","@","e","u","s","y","s","t","e","m","s",".","e","u">>,
     Phone |-> <<"+","4","9","-","3","0","-","1","2","3","4","5","6">>,
     City |-> <<"B","e","r","l","i","n">>,
     Country |-> <<"G","e","r","m","a","n","y">>,
     Status |-> <<"I","n","a","c","t","i","v","e">>,
     CreatedDate |-> <<2023, 2, 10>>,
     CreditLimit |-> 30000],
    [CustomerID |-> 4,
     CustomerName |-> <<"A","s","i","a","n"," ","E","n","t","e","r","p","r","i","s","e","s">>,
     Email |-> <<"c","o","n","t","a","c","t","@","a","s","i","a","n","e","n","t",".","c","o","m">>,
     Phone |-> <<"+","8","1","-","3","-","1","2","3","4","5","6","7">>,
     City |-> <<"T","o","k","y","o">>,
     Country |-> <<"J","a","p","a","n">>,
     Status |-> <<"A","c","t","i","v","e">>,
     CreatedDate |-> <<2023, 4, 5>>,
     CreditLimit |-> 60000] >>

\* orders_data as seeded at import time (src/main.py:92-97).
SeedOrders == <<
    [OrderID |-> 1001,
     CustomerID |-> 1,
     OrderDate |-> <<2024, 1, 10>>,
     TotalAmount |-> 15000,
     Status |-> <<"C","o","m","p","l","e","t","e","d">>,
     Items |-> <<<<"L","a","p","t","o","p">>, <<"S","o","f","t","w","a","r","e"," ","L","i","c","e","n","s","e">>>>],
    [OrderID |-> 1002,
     CustomerID |-> 2,
     OrderDate |-> <<2024, 1, 15>>,
     TotalAmount |-> 25000,
     Status |-> <<"P","r","o","c","e","s","s","i","n","g">>,
     Items |-> <<<<"S","e","r","v","e","r">>, <<"N","e","t","w","o","r","k"," ","E","q","u","i","p","m","e","n","t">>>>],
    [OrderID |-> 1003,
     CustomerID |-> 1,
     OrderDate |-> <<2024, 2, 1>>,
     TotalAmount |-> 8000,
     Status |-> <<"S","h","i","p","p","e","d">>,
     Items |-> <<<<"T","a","b","l","e","t","s">>, <<"A","c","c","e","s","s","o","r","i","e","s">>>>],
    [OrderID |-> 1004,
     CustomerID |-> 4,
     OrderDate |-> <<2024, 2, 10>>,
     TotalAmount |-> 35000,
     Status |-> <<"C","o","m","p","l","e","t","e","d">>,
     Items |-> <<<<"E","n","t","e","r","p","r","i","s","e"," ","S","o","f","t","w","a","r","e">>>>] >>

\* The spelling of every key a result mapping can carry.
FieldChars ==
    [CustomerID |-> <<"C","u","s","t","o","m","e","r","I","D">>,
     CustomerName |-> <<"C","u","s","t","o","m","e","r","N","a","m","e">>,
     Email |-> <<"E","m","a","i","l">>,
     Phone |-> <<"P","h","o","n","e">>,
     City |-> <<"C","i","t","y">>,
     Country |-> <<"C","o","u","n","t","r","y">>,
     Status |-> <<"S","t","a","t","u","s">>,
     CreatedDate |-> <<"C","r","e","a","t","e","d","D","a","t","e">>,
     CreditLimit |-> <<"C","r","e","d","i","t","L","i","m","i","t">>,
     OrderID |-> <<"O","r","d","e","r","I","D">>,
     OrderDate |-> <<"O","r","d","e","r","D","a","t","e">>,
     TotalAmount |-> <<"T","o","t","a","l","A","m","o","u","n","t">>,
     Items |-> <<"I","t","e","m","s">>,
     Orders |-> <<"O","r","d","e","r","s">>]

\* The values of the CustomerStatus enum (its member names are their upper case).
CustomerStatus == {<<"A","c","t","i","v","e">>,
                   <<"I","n","a","c","t","i","v","e">>,
                   <<"S","u","s","p","e","n","d","e","d">>}

IsOrder(item) == "OrderID" \in DOMAIN item

\* The declared type of field f of the class of item.
FieldType(item, f) ==
    CASE f \in {"CustomerID", "OrderID"} -> "int"
      [] f \in {"CreatedDate", "OrderDate"} -> "datetime"
      [] f \in {"CreditLimit", "TotalAmount"} -> "float"
      [] f = "Items" -> "list"
      [] f = "Status" -> IF IsOrder(item) THEN "str" ELSE "enum"
      [] OTHER -> "str"

\* `field in item_dict` for a field name given as text.
HasField(item, field) == \E f \in DOMAIN item : FieldChars[f] = field

\* The key of item that is spelled field.
FieldOf(item, field) == CHOOSE f \in DOMAIN item : FieldChars[f] = field

RECURSIVE ListRepr(_)
\* The items of repr() of a list of str, without the brackets.
ListRepr(l) ==
    IF l = <<>> THEN <<>>
    ELSE <<"'">> \o Head(l) \o <<"'">>
         \o (IF Len(l) > 1 THEN <<",", " ">> ELSE <<>>) \o ListRepr(Tail(l))

\* str(item_dict[f]): the dict of a pydantic model keeps the enum member, whose
\* str() is "CustomerStatus.<NAME>"; a whole float prints with ".0".
StrOf(item, f) ==
    LET v == item[f]
        t == FieldType(item, f)
    IN  CASE t = "int" -> IntToStr(v)
          [] t = "float" -> IntToStr(v) \o <<".", "0">>
          [] t = "datetime" ->
                Pad(v[1], 4) \o <<"-">> \o Pad(v[2], 2) \o <<"-">> \o Pad(v[3], 2)
                \o <<" ","0","0",":","0","0",":","0","0">>
          [] t = "enum" ->
                <<"C","u","s","t","o","m","e","r","S","t","a","t","u","s",".">> \o Upper(v)
          [] t = "list" -> <<"[">> \o ListRepr(v) \o <<"]">>
          [] OTHER -> v

RECURSIVE TextLess(_, _)
\* a < b for two str values (code-point lexicographic).
TextLess(a, b) ==
    IF b = <<>> THEN FALSE
    ELSE IF a = <<>> THEN TRUE
    ELSE IF a[1] # b[1] THEN Ord(a[1]) < Ord(b[1])
    ELSE TextLess(Tail(a), Tail(b))

RECURSIVE ListLess(_, _)
\* a < b for two lists of str.
ListLess(a, b) ==
    IF b = <<>> THEN FALSE
    ELSE IF a = <<>> THEN TRUE
    ELSE IF a[1] # b[1] THEN TextLess(a[1], b[1])
    ELSE ListLess(Tail(a), Tail(b))

\* getattr(x, f) < getattr(y, f), in the native order of the field's type.
KeyLess(x, y, f) ==
    LET t == FieldType(x, f)
    IN  CASE t \in {"int", "float"} -> x[f] < y[f]
          [] t = "datetime" ->
                \/ x[f][1] < y[f][1]
                \/ x[f][1] = y[f][1] /\ x[f][2] < y[f][2]
                \/ x[f][1] = y[f][1] /\ x[f][2] = y[f][2] /\ x[f][3] < y[f][3]
          [] t = "list" -> ListLess(x[f], y[f])
          [] OTHER -> TextLess(x[f], y[f])

(***************************************************************************)
(* ODataQueryParser                                                        *)
(*                                                                         *)
(* A stage returns [raised |-> BOOLEAN, data |-> sequence]: raised is TRUE *)
(* when the Python code leaves the stage by an uncaught exception.         *)
(***************************************************************************)
EqToken == <<" ","e","q"," ">>

Returned(data) == [raised |-> FALSE, data |-> data]

Raised == [raised |-> TRUE, data |-> <<>>]

\* `field, value = filter_str.split(" eq ")` raises ValueError unless the split
\* has exactly two parts.
EqUnpackRaises(filter_str) == Len(Split(filter_str, EqToken)) # 2

\* The eq branch for one item: the item is appended.
EqKeeps(filter_str, item) ==
    LET parts == Split(filter_str, EqToken)
        field == Strip(parts[1], Whitespace)
        value == Strip(Strip(parts[2], Whitespace), QuoteChars)
    IN  /\ HasField(item, field)
        /\ Lower(StrOf(item, FieldOf(item, field))) = Lower(value)

\* The contains branch for one item: the item is appended.
ContainsKeeps(filter_str, item) ==
    LET match == ContainsSearch(filter_str)
    IN  /\ match # <<>>
        /\ HasField(item, match[1])
        /\ Contains(Lower(match[2]), Lower(StrOf(item, FieldOf(item, match[1]))))

\* One iteration of the loop of parse_filter: the item is appended.
FilterKeeps(filter_str, item) ==
    IF Contains(EqToken, filter_str) THEN EqKeeps(filter_str, item)
    ELSE IF Contains(ContainsOpen, filter_str) THEN ContainsKeeps(filter_str, item)
    ELSE TRUE

\* ODataQueryParser.parse_filter(filter_str, data)
parse_filter(filter, data) ==
    IF ~TruthyText(filter) THEN Returned(data)
    ELSE IF data # <<>> /\ Contains(EqToken, filter[1]) /\ EqUnpackRaises(filter[1])
         THEN Raised
    ELSE Returned(SelectSeq(data, LAMBDA item : FilterKeeps(filter[1], item)))

\* str.strip() of every part of select_str.split(',').
SelectFields(select_str) ==
    LET parts == Split(select_str, <<",">>)
    IN  [i \in DOMAIN parts |-> Strip(parts[i], Whitespace)]

\* {field: item_dict.get(field) for field in fields if field in item_dict}
Project(item_dict, fields) ==
    [f \in {g \in DOMAIN item_dict : FieldChars[g] \in Range(fields)} |-> item_dict[f]]

\* ODataQueryParser.parse_select(select_str, data)
parse_select(select, data) ==
    IF ~TruthyText(select) THEN data
    ELSE [i \in DOMAIN data |-> Project(data[i], SelectFields(select[1]))]

\* x comes strictly before y in the requested direction.
Before(x, y, f, desc) == IF desc THEN KeyLess(y, x, f) ELSE KeyLess(x, y, f)

\* x inserted into the sorted sequence s behind every element it does not
\* strictly precede (this is what keeps sorted() stable, also with reverse=True).
InsertSorted(s, x, f, desc) ==
    LET later == {j \in DOMAIN s : Before(x, s[j], f, desc)}
        p == IF later = {} THEN Len(s) + 1 ELSE CHOOSE j \in later : \A h \in later : j <= h
    IN  SubSeq(s, 1, p - 1) \o <<x>> \o SubSeq(s, p, Len(s))

RECURSIVE SortedBy(_, _, _)
\* sorted(data, key=<field f>, reverse=desc)
SortedBy(data, f, desc) ==
    IF data = <<>> THEN <<>>
    ELSE InsertSorted(SortedBy(SubSeq(data, 1, Len(data) - 1), f, desc),
                      data[Len(data)], f, desc)

\* ODataQueryParser.parse_orderby(orderby_str, data).  parts[0] is outside the
\* try block, so a spec with no token raises IndexError; every failure of
\* sorted() itself (no such attribute, keys that do not compare) is caught.
parse_orderby(orderby, data) ==
    IF ~TruthyText(orderby) THEN Returned(data)
    ELSE LET parts == SplitWs(orderby[1])
             desc == Len(parts) > 1 /\ Lower(parts[2]) = <<"d","e","s","c">>
         IN  IF parts = <<>> THEN Raised
             ELSE IF data # <<>> /\ HasField(data[1], parts[1])
                  THEN Returned(SortedBy(data, FieldOf(data[1], parts[1]), desc))
             ELSE Returned(data)

(***************************************************************************)
(* Request handlers                                                        *)
(*                                                                         *)
(* A handler is an operator from the store and the request's inputs to     *)
(* [customers |-> the Customers collection afterwards, resp |-> response]. *)
(* A response is [status, body]; an HTTPException gives its status code    *)
(* and a body with its detail, an exception nobody catches status 500.     *)
(***************************************************************************)
Ok(body) == [status |-> 200, body |-> body]

HTTPException(status_code, detail) == [status |-> status_code, body |-> [detail |-> detail]]

InternalServerError == [status |-> 500, body |-> [detail |-> "Internal Server Error"]]

Max(a, b) == IF a >= b THEN a ELSE b

Min(a, b) == IF a <= b THEN a ELSE b

\* data[n:]
SliceFrom(data, n) ==
    IF n >= 0 THEN SubSeq(data, n + 1, Len(data))
    ELSE SubSeq(data, Max(Len(data) + n, 0) + 1, Len(data))

\* data[:n]
SliceTo(data, n) ==
    IF n >= 0 THEN SubSeq(data, 1, Min(n, Len(data)))
    ELSE SubSeq(data, 1, Max(Len(data) + n, 0))

\* Paginate with the two slices in the other order.
Paginate_TopFirst(ordered_data, skip, top) ==
    LET topped == IF TruthyInt(top) THEN SliceTo(ordered_data, top[1]) ELSE ordered_data
    IN  IF TruthyInt(skip) THEN SliceFrom(topped, skip[1]) ELSE topped

\* `if skip: ordered_data = ordered_data[skip:]`, then
\* `if top: ordered_data = ordered_data[:top]`.
Paginate(ordered_data, skip, top) ==
    LET skipped == IF TruthyInt(skip) THEN SliceFrom(ordered_data, skip[1]) ELSE ordered_data
    IN  IF TruthyInt(top) THEN SliceTo(skipped, top[1]) ELSE skipped

\* The body shared by get_customers and get_orders; q is the Query Option Set
\* [filter, select, orderby, top, skip, count].
ListResponse(data, q) ==
    LET filtered == parse_filter(q.filter, data)
        ordered == parse_orderby(q.orderby, filtered.data)
        total_count == Len(ordered.data)
        result_data == parse_select(q.select, Paginate(ordered.data, q.skip, q.top))
    IN  IF filtered.raised \/ ordered.raised THEN InternalServerError
        ELSE Ok([value |-> result_data,
                 count |-> IF q.count THEN Some(total_count) ELSE None])

\* GET /odata/Customers
get_customers(customers, q) == [customers |-> customers, resp |-> ListResponse(customers, q)]

\* GET /odata/Orders
get_orders(customers, orders, q) == [customers |-> customers, resp |-> ListResponse(orders, q)]

\* Positions of the records whose CustomerID is customer_id.
Positions(customers, customer_id) ==
    {i \in DOMAIN customers : customers[i].CustomerID = customer_id}

\* The position a scan from the front finds first.
FirstPosition(customers, customer_id) ==
    CHOOSE i \in Positions(customers, customer_id) :
        \A j \in Positions(customers, customer_id) : i <= j

\* [o.dict() for o in orders_data if o.CustomerID == customer_id]
CustomerOrders(orders, customer_id) ==
    SelectSeq(orders, LAMBDA o : o.CustomerID = customer_id)

\* ExpandsOrders with a test that ignores case.
ExpandsOrders_AnyCase(expand) ==
    TruthyText(expand) /\ Contains(Lower(FieldChars.Orders), Lower(expand[1]))

\* `if expand and "Orders" in expand`
ExpandsOrders(expand) ==
    TruthyText(expand) /\ Contains(FieldChars.Orders, expand[1])

\* GET /odata/Customers({customer_id})
get_customer_by_id(customers, orders, customer_id, select, expand) ==
    IF Positions(customers, customer_id) = {}
    THEN [customers |-> customers, resp |-> HTTPException(404, "Customer not found")]
    ELSE LET customer == customers[FirstPosition(customers, customer_id)]
             expanded == IF ExpandsOrders(expand)
                         THEN customer @@ ("Orders" :> CustomerOrders(orders, customer_id))
                         ELSE customer
             result == IF TruthyText(select)
                       THEN Project(expanded, SelectFields(select[1]))
                       ELSE expanded
         IN  [customers |-> customers, resp |-> Ok(result)]

\* GET /odata/Orders({order_id})
get_order_by_id(customers, orders, order_id) ==
    LET found == {i \in DOMAIN orders : orders[i].OrderID = order_id}
    IN  IF found = {}
        THEN [customers |-> customers, resp |-> HTTPException(404, "Order not found")]
        ELSE [customers |-> customers,
              resp |-> Ok(orders[CHOOSE i \in found : \A j \in found : i <= j])]

\* `any(c.CustomerID == customer.CustomerID for c in customers_data)`
IdExists(customers, customer_id) == Positions(customers, customer_id) # {}

\* create_customer without the existence check.
create_customer_NoCheck(customers, customer) ==
    [customers |-> Append(customers, customer),
     resp |-> Ok([message |-> "Customer created successfully", customer |-> customer])]

\* POST /odata/Customers
create_customer(customers, customer) ==
    IF IdExists(customers, customer.CustomerID)
    THEN [customers |-> customers,
          resp |-> HTTPException(400, "Customer ID already exists")]
    ELSE [customers |-> Append(customers, customer),
          resp |-> Ok([message |-> "Customer created successfully", customer |-> customer])]

\* PUT /odata/Customers({customer_id})
update_customer(customers, customer_id, customer) ==
    IF Positions(customers, customer_id) = {}
    THEN [customers |-> customers, resp |-> HTTPException(404, "Customer not found")]
    ELSE [customers |-> [customers EXCEPT ![FirstPosition(customers, customer_id)] = customer],
          resp |-> Ok([message |-> "Customer updated successfully", customer |-> customer])]

\* list.pop(i)
Pop(data, i) == SubSeq(data, 1, i - 1) \o SubSeq(data, i + 1, Len(data))

\* delete_customer removing every record with the id instead of the first.
delete_customer_All(customers, customer_id) ==
    IF Positions(customers, customer_id) = {}
    THEN [customers |-> customers, resp |-> HTTPException(404, "Customer not found")]
    ELSE [customers |-> SelectSeq(customers, LAMBDA c : c.CustomerID # customer_id),
          resp |-> Ok([message |-> "Customer deleted successfully"])]

\* DELETE /odata/Customers({customer_id})
delete_customer(customers, customer_id) ==
    IF Positions(customers, customer_id) = {}
    THEN [customers |-> customers, resp |-> HTTPException(404, "Customer not found")]
    ELSE [customers |-> Pop(customers, FirstPosition(customers, customer_id)),
          resp |-> Ok([message |-> "Customer deleted successfully"])]

(***************************************************************************)
(* Bounds and inputs                                                       *)
(***************************************************************************)
\* Path ids and body ids of requests range over 1 .. MaxID.
MaxID == 5

\* At most MaxWrites create/replace/delete requests are sent in a behaviour.
MaxWrites == 2

\* $skip and $top range over None and 0 .. MaxPage.
MaxPage == 2

\* Requests in flight at the same time in the concurrent specification.
NumClients == 2

\* At most MaxSent requests are sent in a behaviour of the concurrent
\* specification.
MaxSent == 2

IDs == 1..MaxID

Clients == 1..NumClients

\* A request body that validates as a Customer, with the given CustomerID.
Body(id) ==
    [CustomerID |-> id,
     CustomerName |-> <<"A","c","m","e">>,
     Email |-> <<"a","@","b",".","c">>,
     Phone |-> <<"0">>,
     City |-> <<"P","a","r","i","s">>,
     Country |-> <<"F","r","a","n","c","e">>,
     Status |-> <<"S","u","s","p","e","n","d","e","d">>,
     CreatedDate |-> <<2024, 1, 1>>,
     CreditLimit |-> 1000]

PageValues == {None} \cup {Some(n) : n \in 0..MaxPage}

FilterTexts ==
    { None,
      \* the empty text
      Some(<<>>),
      \* Country eq 'usa'
      Some(<<"C","o","u","n","t","r","y"," ","e","q"," ","'","u","s","a","'">>),
      \* CustomerID eq 1
      Some(<<"C","u","s","t","o","m","e","r","I","D"," ","e","q"," ","1">>),
      \* Status eq 'Completed'
      Some(<<"S","t","a","t","u","s"," ","e","q"," ","'","C","o","m","p","l","e","t",
             "e","d","'">>),
      \* A eq 1 and B eq 2
      Some(<<"A"," ","e","q"," ","1"," ","a","n","d"," ","B"," ","e","q"," ","2">>),
      \* contains(CustomerName, 'tech')
      Some(<<"c","o","n","t","a","i","n","s","(","C","u","s","t","o","m","e","r","N",
             "a","m","e",","," ","'","t","e","c","h","'",")">>),
      \* contains(Email, '.com')
      Some(<<"c","o","n","t","a","i","n","s","(","E","m","a","i","l",","," ","'",".",
             "c","o","m","'",")">>),
      \* contains(CustomerName
      Some(<<"c","o","n","t","a","i","n","s","(","C","u","s","t","o","m","e","r","N",
             "a","m","e">>),
      \* Bogus
      Some(<<"B","o","g","u","s">>) }

OrderbyTexts ==
    { None,
      \* CreditLimit desc
      Some(<<"C","r","e","d","i","t","L","i","m","i","t"," ","d","e","s","c">>),
      \* Status
      Some(<<"S","t","a","t","u","s">>),
      \* OrderDate desc
      Some(<<"O","r","d","e","r","D","a","t","e"," ","d","e","s","c">>),
      \* Items
      Some(<<"I","t","e","m","s">>),
      \* Nope
      Some(<<"N","o","p","e">>),
      \* a single space
      Some(<<" ">>) }

SelectTexts ==
    { None,
      \* CustomerName,Bogus
      Some(<<"C","u","s","t","o","m","e","r","N","a","m","e",",","B","o","g","u","s">>) }

ExpandTexts ==
    { None,
      \* Orders
      Some(<<"O","r","d","e","r","s">>),
      \* Items,Orders
      Some(<<"I","t","e","m","s",",","O","r","d","e","r","s">>),
      \* orders
      Some(<<"o","r","d","e","r","s">>) }

\* Every Query Option Set over the texts above.
QueryOptions ==
    [filter : FilterTexts, select : SelectTexts, orderby : OrderbyTexts,
     top : PageValues, skip : PageValues, count : BOOLEAN]

\* The list requests of the store specification: at most one of $filter,
\* $orderby and $select, and no paging.
PlainOptions ==
    {q \in QueryOptions :
        /\ q.top = None /\ q.skip = None
        /\ Cardinality({o \in {q.filter, q.orderby, q.select} : o # None}) <= 1
        /\ (q.count => q.filter = None /\ q.orderby = None /\ q.select = None)}

(***************************************************************************)
(* The store specification: one request at a time.                         *)
(***************************************************************************)
Idle == [op |-> "idle"]

NoResponse == [status |-> 0, body |-> [detail |-> "no response yet"]]

IdleSlot == [pc |-> "idle", req |-> Idle, resp |-> NoResponse, raced |-> FALSE]

Init ==
    /\ customers_data = SeedCustomers
    /\ orders_data = SeedOrders
    /\ req = Idle
    /\ resp = NoResponse
    /\ slots = [c \in Clients |-> IdleSlot]
    /\ writes = 0

\* The handler ran to completion: the store and the response it leaves.
Handled(request, result) ==
    /\ req = Idle
    /\ req' = request
    /\ resp' = result.resp
    /\ customers_data' = result.customers
    /\ UNCHANGED <<orders_data, slots>>

GetCustomers(q) ==
    /\ Handled([op |-> "get_customers", q |-> q], get_customers(customers_data, q))
    /\ UNCHANGED writes

GetOrders(q) ==
    /\ Handled([op |-> "get_orders", q |-> q], get_orders(customers_data, orders_data, q))
    /\ UNCHANGED writes

GetCustomerById(customer_id, select, expand) ==
    /\ Handled([op |-> "get_customer_by_id", customer_id |-> customer_id,
                select |-> select, expand |-> expand],
               get_customer_by_id(customers_data, orders_data, customer_id, select, expand))
    /\ UNCHANGED writes

GetOrderById(order_id) ==
    /\ Handled([op |-> "get_order_by_id", order_id |-> order_id],
               get_order_by_id(customers_data, orders_data, order_id))
    /\ UNCHANGED writes

CreateCustomer(customer) ==
    /\ writes < MaxWrites
    /\ writes' = writes + 1
    /\ Handled([op |-> "create_customer", customer |-> customer],
               create_customer(customers_data, customer))

UpdateCustomer(customer_id, customer) ==
    /\ writes < MaxWrites
    /\ writes' = writes + 1
    /\ Handled([op |-> "update_customer", customer_id |-> customer_id, customer |-> customer],
               update_customer(customers_data, customer_id, customer))

\* DeleteCustomer that also deletes the Orders of the deleted Customer.
DeleteCustomer_Cascade(customer_id) ==
    LET result == delete_customer(customers_data, customer_id)
    IN  /\ writes < MaxWrites
        /\ writes' = writes + 1
        /\ req = Idle
        /\ req' = [op |-> "delete_customer", customer_id |-> customer_id]
        /\ resp' = result.resp
        /\ customers_data' = result.customers
        /\ orders_data' = IF result.resp.status = 200
                          THEN SelectSeq(orders_data, LAMBDA o : o.CustomerID # customer_id)
                          ELSE orders_data
        /\ UNCHANGED slots

DeleteCustomer(customer_id) ==
    /\ writes < MaxWrites
    /\ writes' = writes + 1
    /\ Handled([op |-> "delete_customer", customer_id |-> customer_id],
               delete_customer(customers_data, customer_id))

\* The response has been sent; the next request can be taken.
Respond ==
    /\ req # Idle
    /\ req' = Idle
    /\ resp' = NoResponse
    /\ UNCHANGED <<customers_data, orders_data, slots, writes>>

Next ==
    \/ \E q \in PlainOptions : GetCustomers(q)
    \/ \E q \in PlainOptions : GetOrders(q)
    \/ \E id \in IDs, select \in SelectTexts, expand \in ExpandTexts :
            GetCustomerById(id, select, expand)
    \/ \E id \in IDs : GetOrderById(1000 + id)
    \/ \E id \in IDs : CreateCustomer(Body(id))
    \/ \E id \in IDs, body \in IDs : UpdateCustomer(id, Body(body))
    \/ \E id \in IDs : DeleteCustomer(id)
    \/ Respond

Spec == Init /\ [][Next]_vars

(***************************************************************************)
(* The query specification: list requests with every combination of        *)
(* $filter, $orderby, $skip, $top and $count, on the seeded Customers and  *)
(* Orders.                                                                 *)
(***************************************************************************)
PagedOptions == {q \in QueryOptions : q.select = None}

NextQuery ==
    \/ \E q \in PagedOptions : GetCustomers(q)
    \/ \E q \in PagedOptions : GetOrders(q)
    \/ Respond

SpecQuery == Init /\ [][NextQuery]_vars

(***************************************************************************)
(* The concurrent specification.  uvicorn.run(app) serves every request on *)
(* one event loop.  The handlers are `async def` and contain no `await`,   *)
(* so a handler that has started runs to its return before any other       *)
(* handler runs: requests of several clients are in flight together, and   *)
(* each handler body is a single step.                                     *)
(***************************************************************************)
\* The ids concurrent requests address: the last seeded id and the fresh ones.
RacedIDs == Len(SeedCustomers)..MaxID

WriteRequests ==
    {[op |-> "create_customer", customer |-> Body(id)] : id \in RacedIDs}
    \cup {[op |-> "update_customer", customer_id |-> id, customer |-> Body(body)] :
            id \in RacedIDs, body \in RacedIDs}
    \cup {[op |-> "delete_customer", customer_id |-> id] : id \in RacedIDs}

\* Request r arrives while client d has a create of the same, absent id pending.
Races(r, d) ==
    /\ r.op = "create_customer"
    /\ slots[d].pc = "pending"
    /\ slots[d].req.op = "create_customer"
    /\ slots[d].req.customer.CustomerID = r.customer.CustomerID
    /\ ~IdExists(customers_data, r.customer.CustomerID)

\* The request of client c has been received and waits for the event loop.
Arrive(c, r) ==
    /\ slots[c].pc = "idle"
    /\ writes < MaxSent
    /\ writes' = writes + 1
    /\ slots' = [d \in Clients |->
                    IF d = c
                    THEN [pc |-> "pending", req |-> r, resp |-> NoResponse,
                          raced |-> \E e \in Clients \ {c} : Races(r, e)]
                    ELSE IF Races(r, d) THEN [slots[d] EXCEPT !.raced = TRUE]
                    ELSE slots[d]]
    /\ UNCHANGED <<customers_data, orders_data, req, resp>>

\* The event loop runs the handler of client c to completion.
Ran(c, op, result) ==
    /\ slots[c].pc = "pending"
    /\ slots[c].req.op = op
    /\ customers_data' = result.customers
    /\ slots' = [slots EXCEPT ![c].pc = "done", ![c].resp = result.resp]
    /\ UNCHANGED <<orders_data, req, resp, writes>>

\* RunCreate with the existence check taken when the request arrived: a
\* raced create appends without looking at the store again.
RunCreate_Stale(c) ==
    Ran(c, "create_customer",
        IF slots[c].raced
        THEN create_customer_NoCheck(customers_data, slots[c].req.customer)
        ELSE create_customer(customers_data, slots[c].req.customer))

RunCreate(c) ==
    Ran(c, "create_customer", create_customer(customers_data, slots[c].req.customer))

RunUpdate(c) ==
    Ran(c, "update_customer",
        update_customer(customers_data, slots[c].req.customer_id, slots[c].req.customer))

RunDelete(c) ==
    Ran(c, "delete_customer", delete_customer(customers_data, slots[c].req.customer_id))

\* The response of client c has been sent.
Deliver(c) ==
    /\ slots[c].pc = "done"
    /\ slots' = [slots EXCEPT ![c] = IdleSlot]
    /\ UNCHANGED <<customers_data, orders_data, req, resp, writes>>

NextConc ==
    \/ \E c \in Clients, r \in WriteRequests : Arrive(c, r)
    \/ \E c \in Clients : RunCreate(c)
    \/ \E c \in Clients : RunUpdate(c)
    \/ \E c \in Clients : RunDelete(c)
    \/ \E c \in Clients : Deliver(c)

SpecConc == Init /\ [][NextConc]_vars

(***************************************************************************)
(* Properties                                                              *)
(***************************************************************************)
IsList(r) == r.op \in {"get_customers", "get_orders"}

\* The collection a list request reads.
ListedData(r) == IF r.op = "get_customers" THEN customers_data ELSE orders_data

\* text holds the six characters O r d e r s in a row.
NamesOrders(text) ==
    \E i \in 1..(Len(text) - 5) : SubSeq(text, i, i + 5) = <<"O","r","d","e","r","s">>

\* C1: in every reachable state no two records of the Customers collection
\* have the same CustomerID.
C1_UniqueCustomerIDs ==
    \A i, j \in DOMAIN customers_data :
        i # j => customers_data[i].CustomerID # customers_data[j].CustomerID

\* C2: a replace with path id k that succeeds with body r leaves a record with
\* CustomerID k at the replaced position, and get-by-id(k) with no select and
\* no expand then returns r.
C2_ReplaceKeepsIdentity ==
    [][ (req = Idle /\ req'.op = "update_customer" /\ resp'.status = 200) =>
          LET k == req'.customer_id
              p == CHOOSE i \in DOMAIN customers_data :
                      /\ customers_data[i].CustomerID = k
                      /\ \A j \in 1..(i - 1) : customers_data[j].CustomerID # k
              read == get_customer_by_id(customers_data', orders_data', k, None, None).resp
          IN  /\ customers_data'[p].CustomerID = k
              /\ read.status = 200
              /\ read.body = req'.customer ]_vars

\* C3: a create whose CustomerID is stored fails with 400 and leaves the
\* Customers collection unchanged; a create whose CustomerID is not stored
\* succeeds and appends exactly that record at the end.
C3_CreateChecksKey ==
    [][ (req = Idle /\ req'.op = "create_customer") =>
          LET c == req'.customer
          IN  IF \E i \in DOMAIN customers_data :
                    customers_data[i].CustomerID = c.CustomerID
              THEN resp'.status = 400 /\ customers_data' = customers_data
              ELSE /\ resp'.status = 200
                   /\ Len(customers_data') = Len(customers_data) + 1
                   /\ customers_data'[Len(customers_data')] = c
                   /\ \A i \in DOMAIN customers_data :
                        customers_data'[i] = customers_data[i] ]_vars

\* C3 witness: a create has succeeded and its record is the last one, behind
\* the records that were stored before.
C3_Witness ==
    /\ req.op = "create_customer"
    /\ resp.status = 200
    /\ Len(customers_data) > 1
    /\ customers_data[Len(customers_data)] = req.customer

\* C4: a replace or delete whose id is not stored fails with 404 and leaves
\* the Customers collection unchanged; when the id is stored, replace writes
\* the body at one position and leaves every other position as it was, and
\* delete removes one record with that id and keeps the others in order.
C4_ReplaceDeleteOnePosition ==
    [][ (req = Idle /\ req'.op \in {"update_customer", "delete_customer"}) =>
          LET k == req'.customer_id
              old == customers_data
              new == customers_data'
              stored == \E i \in DOMAIN old : old[i].CustomerID = k
          IN  IF ~stored
              THEN resp'.status = 404 /\ new = old
              ELSE IF req'.op = "update_customer"
              THEN /\ resp'.status = 200
                   /\ Len(new) = Len(old)
                   /\ \E p \in DOMAIN old :
                        /\ old[p].CustomerID = k
                        /\ new[p] = req'.customer
                        /\ \A i \in DOMAIN old \ {p} : new[i] = old[i]
              ELSE /\ resp'.status = 200
                   /\ Len(new) = Len(old) - 1
                   /\ \E p \in DOMAIN old :
                        /\ old[p].CustomerID = k
                        /\ \A i \in 1..(p - 1) : new[i] = old[i]
                        /\ \A i \in p..Len(new) : new[i] = old[i + 1] ]_vars

\* C4 witness: a delete has succeeded while a second record with the deleted
\* id was stored, and that second record is still there.
C4_Witness ==
    /\ req.op = "delete_customer"
    /\ resp.status = 200
    /\ \E i \in DOMAIN customers_data : customers_data[i].CustomerID = req.customer_id

\* C5: a list request on Customers or Orders never ends in an error state,
\* whatever its $filter and $orderby texts are.
C5_ListNeverFails ==
    IsList(req) => resp.status = 200

\* text matches neither recognized form: it has no " eq " token and the
\* contains pattern does not match it.
NeitherForm(text) ==
    /\ \A i \in 1..(Len(text) - 3) : SubSeq(text, i, i + 3) # <<" ","e","q"," ">>
    /\ ContainsSearch(text) = <<>>

\* C6: with a non-empty filter text that matches neither recognized form (and
\* no other option), the list returns every record in its original order.
C6_UnrecognizedFilterKeepsAll ==
    ( /\ IsList(req)
      /\ TruthyText(req.q.filter)
      /\ NeitherForm(req.q.filter[1])
      /\ req.q.orderby = None /\ req.q.skip = None /\ req.q.top = None
      /\ req.q.select = None )
    => (resp.status = 200 /\ resp.body.value = ListedData(req))

\* Absent counts as 0.
OrZero(opt) == IF opt = None THEN 0 ELSE opt[1]

\* S without its first sk elements, cut to its first tp elements when tp > 0.
ExpectedPage(S, sk, tp) ==
    LET rest == IF Len(S) > sk THEN Len(S) - sk ELSE 0
        n == IF tp > 0 /\ tp < rest THEN tp ELSE rest
    IN  [i \in 1..n |-> S[sk + i]]

\* The filtered and ordered sequence of a list request that did not fail.
FilteredOrdered(r) ==
    parse_orderby(r.q.orderby, parse_filter(r.q.filter, ListedData(r)).data).data

\* C7: the returned page is the filtered+ordered sequence S with the first
\* skip elements dropped and then, when top > 0, cut to its first top
\* elements; with the count flag the count is the length of S.
C7_PageAndCount ==
    (IsList(req) /\ resp.status = 200 /\ req.q.select = None) =>
        LET S == FilteredOrdered(req)
        IN  /\ resp.body.value = ExpectedPage(S, OrZero(req.q.skip), OrZero(req.q.top))
            /\ req.q.count => resp.body.count = <<Len(S)>>

\* C7 witness: skip 1 and top 2 on a four-element S give its second and
\* third element and count 4.
C7_Witness ==
    /\ IsList(req)
    /\ resp.status = 200
    /\ req.q.skip = Some(1) /\ req.q.top = Some(2) /\ req.q.count
    /\ req.q.orderby # None
    /\ Len(FilteredOrdered(req)) = 4
    /\ resp.body.value = <<FilteredOrdered(req)[2], FilteredOrdered(req)[3]>>
    /\ resp.body.count = <<4>>

\* C8: a get-by-id of a stored Customer id k with no select succeeds, and its
\* mapping has an Orders key exactly when the expand directive names Orders;
\* the value is then the Orders whose CustomerID is k, in insertion order
\* (OrderID 1001 then 1003 for k = 1).
C8_ExpandOrders ==
    (req.op = "get_customer_by_id" /\ req.select = None
        /\ \E i \in DOMAIN customers_data : customers_data[i].CustomerID = req.customer_id)
    =>  LET k == req.customer_id
            named == req.expand # None /\ NamesOrders(req.expand[1])
            idx == {i \in DOMAIN orders_data : orders_data[i].CustomerID = k}
        IN  /\ resp.status = 200
            /\ ("Orders" \in DOMAIN resp.body) <=> named
            /\ named =>
                 LET v == resp.body.Orders
                 IN  /\ Len(v) = Cardinality(idx)
                     /\ \A n \in DOMAIN v :
                          \E i \in idx : /\ v[n] = orders_data[i]
                                         /\ Cardinality({j \in idx : j < i}) = n - 1
                     /\ k = 1 => [n \in DOMAIN v |-> v[n].OrderID] = <<1001, 1003>>

\* C8 witness: Customer 1 has been read with an expand directive that names
\* Orders among other names, and two Orders are attached.
C8_Witness ==
    /\ req.op = "get_customer_by_id"
    /\ req.customer_id = 1
    /\ req.select = None
    /\ req.expand # None /\ Len(req.expand[1]) > 6
    /\ resp.status = 200
    /\ "Orders" \in DOMAIN resp.body
    /\ Len(resp.body.Orders) = 2

\* C9: the Orders collection always equals its seed value.
C9_OrdersReadOnly ==
    orders_data = SeedOrders

\* C9 witness: a Customer that Orders refer to has been deleted.
C9_Witness ==
    /\ req.op = "delete_customer"
    /\ resp.status = 200
    /\ \E i \in DOMAIN orders_data : orders_data[i].CustomerID = req.customer_id
    /\ \A i \in DOMAIN customers_data : customers_data[i].CustomerID # req.customer_id

\* Clients c and d have raced creates of the same CustomerID.
RacedCreates(c, d) ==
    /\ c # d
    /\ slots[c].raced /\ slots[d].raced
    /\ slots[c].req.op = "create_customer" /\ slots[d].req.op = "create_customer"
    /\ slots[c].req.customer.CustomerID = slots[d].req.customer.CustomerID

====
